---------------------------- MODULE Spec2Model ----------------------------
(***************************************************************************)
(* Batch Script Execution (src/BatchScriptExecution.py).                   *)
(*                                                                         *)
(* The model covers one invocation of execute_script from the press of     *)
(* Execute: the scan-root and scan-result checks (lines 702-747), the      *)
(* count confirmation (line 750), the construction of the PendingFile      *)
(* records, the modal file-access dialog driven by                         *)
(* BatchScriptExecutionAccessHandler / BatchScriptExecutionAccessEntry,    *)
(* and the execution loop (lines 775-823).  The filesystem is an           *)
(* environment that may change between any two reads the code makes.  The  *)
(* directory scanner and the filter stage are modelled as functions, and  *)
(* the unsaved-changes prompt that precedes the scan (lines 688-697) as a  *)
(* step of a specification of its own, at the end of the module.           *)
(***************************************************************************)
EXTENDS Integers, Sequences, FiniteSets, TLC

\* Number of files in the filtered scan result (keys of pending_files, in
\* insertion order 1..NumFiles).
NumFiles == 2

Files == 1..NumFiles

\* What the filesystem holds at a path: nothing, a writable file, or a file
\* without write permission (os.path.exists / os.access(path, os.W_OK)).
DiskStates == {"absent", "writable", "read_only"}

\* enum FileStatus; "none" is a record not constructed yet.
FileStatus == {"does_not_exist", "writable", "read_only", "skip"}

\* enum FileResult; "none" is PendingFile.result = None.
FileResult == {"success", "failed", "file_invalid", "file_tampered",
               "file_missing", "file_not_found", "file_read_only",
               "file_skipped"}

\* Outcomes of one checkout attempt, as the code distinguishes them.
CheckoutOutcomes == {"not_installed", "no_config", "config_exc", "ok", "p4_fail",
                     "p4_fail_unknown"}

VARIABLES
    pc,              \* position inside execute_script
    disk,            \* filesystem state of each path (environment)
    status,          \* PendingFile.status of each record
    result,          \* PendingFile.result of each record
    warning,         \* PendingFile.warning is set
    handler_result,  \* BatchScriptExecutionAccessHandler.result
    wants_save,      \* the save checkbox as read at line 761
    idx,             \* position of the loop at line 775
    visited,         \* records the loop body has been entered for
    drift,           \* what the re-check at lines 796/799 read, per record
    opened,          \* files passed to cmds.file(open=True)
    ran,             \* files the user script was started on
    raised,          \* files on which the user script raised
    saved,           \* files saved by cmds.file(save=True)
    doc_reset,       \* cmds.file(new=True) at line 819 was performed
    last_op,         \* the last dialog callback invoked, and how it ended
    tog,             \* consecutive skip_file calls on one record
    env,             \* what execute_script finds: scan root, scan and filter
                     \* result sizes, checkout provider
    shown,           \* the error dialog the last step showed, if any
    snap,            \* the records' status when Continue closed the dialog
    fn,              \* input and output of the scanner and of the filter stage
    script,          \* the script editor, the saved command, the command
                     \* execute_script read, and the command run on each file
    ui               \* which controls of the access dialog are enabled

vars == <<pc, disk, status, result, warning, handler_result, wants_save, idx,
          visited, drift, opened, ran, raised, saved, doc_reset, last_op, tog,
          env, shown, snap, fn, script, ui>>

NoOp == [op |-> "none", f |-> 0, exc |-> FALSE]
NoTog == [f |-> 0, n |-> 0, pre |-> "none"]
NoDrift == [st |-> "none", exists |-> "none"]
NoShown == [kind |-> "none", f |-> 0]
NoFn == [kind |-> "none"]
NoUi == [open |-> FALSE]

\* What check_directory_status and the test at line 673 can find at the scan
\* root.
DirStates == {"unset", "missing", "not_dir", "not_writable", "ok"}

\* The checkout provider as checkout_file finds it: the P4 module missing,
\* the p4config option unset or empty, a p4config file that is missing or
\* lacks a key, or a usable configuration.
Providers == {"not_installed", "no_config", "bad_config", "ok"}

-----------------------------------------------------------------------------
(* Pure helpers *)

\* Mutant: a missing file is classified like a read-only one.
check_file_status_no_missing(d) ==
    IF d = "writable" THEN "writable" ELSE "read_only"

\* BatchScriptExecutionAccessEntry.check_file_status (lines 202-212).
check_file_status(d) ==
    IF d # "absent"
    THEN IF d = "writable" THEN "writable" ELSE "read_only"
    ELSE "does_not_exist"

\* os.path.exists(file) at line 799.
path_exists(d) == d # "absent"

\* The loop of can_continue from record i on: the first read_only record
\* returns False, the end of the dict returns True.
RECURSIVE can_continue_from(_, _)
can_continue_from(st, i) ==
    IF i > NumFiles THEN TRUE
    ELSE IF st[i] = "read_only" THEN FALSE
    ELSE can_continue_from(st, i + 1)

\* Mutant: 'return True' inside the loop, so only the first record counts.
can_continue_first_only(st) == st[1] # "read_only"

\* Mutant: a missing file blocks Continue like a read-only one.
can_continue_blocks_missing(st) ==
    \A f \in Files : st[f] \notin {"read_only", "does_not_exist"}

\* Mutant: Continue is never refused.
can_continue_always(st) == TRUE

\* BatchScriptExecutionAccessHandler.can_continue (lines 441-445).
can_continue(st) == can_continue_from(st, 1)

\* refresh_ui (lines 185-197): the buttons of one entry.
refresh_ui(s) ==
    [checkout |-> s = "read_only" /\ s # "skip",
     writable |-> s = "read_only" /\ s # "skip",
     refresh |-> s # "skip"]

\* update_continue_button (lines 434-439), both buttons existing.
update_continue_button(u, st) ==
    [u EXCEPT !.continue = can_continue(st),
              !.checkout_all = ~can_continue(st)]

\* spawn_ui (lines 407-423).  Each entry is built and refreshed while
\* handler.continue_button and handler.checkout_button are still None, so
\* the calls of update_continue_button from refresh_ui change nothing; then
\* only the Continue button is set (line 423).  'Checkout All' keeps the
\* state cmds.button gave it at line 99, where no enable flag is passed:
\* enabled.
spawn_ui(st) ==
    [open |-> TRUE,
     continue |-> can_continue(st),
     checkout_all |-> TRUE,
     entry |-> [f \in Files |-> refresh_ui(st[f])]]

\* refresh_ui of entry f followed by update_continue_button (lines 339,
\* 199-200).
entry_refreshed(u, st, f) ==
    update_continue_button([u EXCEPT !.entry[f] = refresh_ui(st[f])], st)

\* Mutant: refresh keeps whatever status is stored.
refresh_status_keeps(s, d) == s

\* refresh, line 337: a skipped record keeps skip, any other is re-classified.
refresh_status(s, d) == IF s = "skip" THEN "skip" ELSE check_file_status(d)

\* Mutant: the toggle has lost its un-skip branch.
skip_file_status_always_skip(s, d) == "skip"

\* skip_file, line 343: skip a record that is not skipped, re-classify one
\* that is.
skip_file_status(s, d) == IF s # "skip" THEN "skip" ELSE check_file_status(d)

\* Mutant: the check of handler.result is missing.
batch_proceeds_always(r) == TRUE

\* if not handler.result: return (lines 769-771).
batch_proceeds(r) == r

\* Lines 785-790: the result of a record whose status is not writable.
blocked_result(s, old) ==
    IF s = "skip" THEN "file_skipped"
    ELSE IF s = "does_not_exist" THEN "file_not_found"
    ELSE IF s = "read_only" THEN "file_read_only"
    ELSE old

\* Mutant: the loop re-derives the state from the filesystem.
is_blocked_by_disk(s, d) == check_file_status(d) # "writable"

\* Line 784: the stored status alone decides whether the record is processed.
is_blocked(s, d) == s # "writable"

\* Mutant: the two drift results are swapped.
drift_result_swapped(exists) == IF ~exists THEN "file_tampered" ELSE "file_missing"

\* Line 800: file_missing when the path is gone, file_tampered otherwise.
drift_result(exists) == IF ~exists THEN "file_missing" ELSE "file_tampered"

\* Mutant: the test for an empty list after filtering (line 743) is missing.
start_error_no_filtered_check(e) ==
    IF e.dir = "unset" THEN "dir_unset"
    ELSE IF e.dir = "missing" THEN "dir_missing"
    ELSE IF e.dir = "not_dir" THEN "dir_not_dir"
    ELSE IF e.dir = "not_writable" THEN "dir_not_writable"
    ELSE IF e.scanned = 0 THEN "dir_empty"
    ELSE "none"

\* Mutant: execute_script also refuses to start without a usable provider.
start_error_checks_provider(e) ==
    IF e.dir = "unset" THEN "dir_unset"
    ELSE IF e.dir = "missing" THEN "dir_missing"
    ELSE IF e.dir = "not_dir" THEN "dir_not_dir"
    ELSE IF e.dir = "not_writable" THEN "dir_not_writable"
    ELSE IF e.scanned = 0 THEN "dir_empty"
    ELSE IF e.kept = 0 THEN "filtered_empty"
    ELSE IF e.provider \in {"not_installed", "no_config"} THEN e.provider
    ELSE "none"

\* gather_maya_files (lines 671-685) with check_directory_status (lines
\* 214-233), then lines 706 and 743 of execute_script: the first error found,
\* in the order the code tests, or "none".
start_error(e) ==
    IF e.dir = "unset" THEN "dir_unset"
    ELSE IF e.dir = "missing" THEN "dir_missing"
    ELSE IF e.dir = "not_dir" THEN "dir_not_dir"
    ELSE IF e.dir = "not_writable" THEN "dir_not_writable"
    ELSE IF e.scanned = 0 THEN "dir_empty"
    ELSE IF e.kept = 0 THEN "filtered_empty"
    ELSE "none"

\* What one checkout attempt can do under each provider state (lines 290,
\* 250-257, 268-283).
checkout_outcomes(p) ==
    IF p = "not_installed" THEN {"not_installed"}
    ELSE IF p = "no_config" THEN {"no_config"}
    ELSE IF p = "bad_config" THEN {"config_exc"}
    ELSE {"ok", "p4_fail", "p4_fail_unknown"}

\* Mutant: the 'Make Writable' hint is never chosen.
checkout_dialog_no_hint(o) ==
    IF o = "no_config" THEN "no_config"
    ELSE IF o \in {"p4_fail", "p4_fail_unknown"} THEN "p4_fail"
    ELSE "none"

\* The dialog a checkout attempt that reached the provider shows (lines 253,
\* 277-280): none on success and none when an exception escaped.
checkout_dialog(o) ==
    IF o = "no_config" THEN "no_config"
    ELSE IF o = "p4_fail" THEN "p4_fail"
    ELSE IF o = "p4_fail_unknown" THEN "p4_fail_hint"
    ELSE "none"

-----------------------------------------------------------------------------
(* Initial state: Execute was pressed.  The scan root, the sizes of the     *)
(* scan and filter results and the checkout provider are what they are;     *)
(* every scanned path was a file when os.scandir listed it (entry.is_file(),*)
(* line 655).                                                               *)

Init ==
    /\ pc = "start"
    /\ env \in {e \in [dir : DirStates, scanned : {0, NumFiles},
                        kept : {0, NumFiles}, provider : Providers] :
                  e.kept <= e.scanned}
    /\ shown = NoShown
    /\ snap = [f \in Files |-> "none"]
    /\ fn = NoFn
    /\ script = [editor |-> "old", last_command |-> "old", stored |-> "old",
                 stored0 |-> "old", answer |-> "none", command |-> "none",
                 ran |-> [f \in Files |-> "none"]]
    /\ ui = NoUi
    /\ disk \in [Files -> {"writable", "read_only"}]
    /\ status = [f \in Files |-> "none"]
    /\ result = [f \in Files |-> "none"]
    /\ warning = [f \in Files |-> FALSE]
    /\ handler_result = FALSE
    /\ wants_save = FALSE
    /\ idx = 0
    /\ visited = {}
    /\ drift = [f \in Files |-> NoDrift]
    /\ opened = {}
    /\ ran = {}
    /\ raised = {}
    /\ saved = {}
    /\ doc_reset = FALSE
    /\ last_op = NoOp
    /\ tog = NoTog

-----------------------------------------------------------------------------
(* Environment *)

\* Another process creates, deletes or changes the permissions of a path.
\* The code holds no lock on any file, so this may happen between any two
\* steps of the batch until execute_script has returned.
FsChange(f, d) ==
    /\ pc \in {"count_dialog", "dialog", "closed", "exec", "drift"}
    /\ UNCHANGED <<env, shown, snap, fn, script, ui>>
    /\ disk[f] # d
    /\ disk' = [disk EXCEPT ![f] = d]
    /\ tog' = NoTog
    /\ UNCHANGED <<pc, status, result, warning, handler_result, wants_save,
                   idx, visited, drift, opened, ran, raised, saved, doc_reset,
                   last_op>>

-----------------------------------------------------------------------------
(* execute_script up to the count confirmation (lines 702-747) *)

\* Mutant: the command is taken from the editor (get_command) instead of
\* the saved option.
execute_script_begin_editor_command ==
    /\ pc = "start"
    /\ IF start_error(env) # "none"
       THEN /\ shown' = [kind |-> start_error(env), f |-> 0]
            /\ pc' = "rejected"
       ELSE /\ UNCHANGED shown
            /\ pc' = "count_dialog"
    /\ UNCHANGED <<disk, status, result, warning, handler_result, wants_save,
                   idx, visited, drift, opened, ran, raised, saved, doc_reset,
                   last_op, tog, env, snap, fn, ui>>
    /\ script' = [script EXCEPT !.command = script.editor]

\* The command is read from the saved option (line 700).  A scan-root or
\* scan-result error is shown in a dialog and execute_script returns;
\* otherwise the count dialog opens.
execute_script_begin ==
    /\ pc = "start"
    /\ IF start_error(env) # "none"
       THEN /\ shown' = [kind |-> start_error(env), f |-> 0]
            /\ pc' = "rejected"
       ELSE /\ UNCHANGED shown
            /\ pc' = "count_dialog"
    /\ UNCHANGED <<disk, status, result, warning, handler_result, wants_save,
                   idx, visited, drift, opened, ran, raised, saved, doc_reset,
                   last_op, tog, env, snap, fn, ui>>
    /\ script' = [script EXCEPT !.command = script.stored]

-----------------------------------------------------------------------------
(* The count confirmation (lines 750-768) *)

\* 'Continue': wants_save is read, one PendingFile is built per path
\* (PendingFile.__init__ classifies it) and the access dialog opens.
confirm_continue ==
    /\ pc = "count_dialog"
    /\ UNCHANGED <<env, shown, snap, fn, script>>
    /\ \E ws \in BOOLEAN : wants_save' = ws
    /\ status' = [f \in Files |-> check_file_status(disk[f])]
    /\ ui' = spawn_ui(status')
    /\ pc' = "dialog"
    /\ UNCHANGED <<disk, result, warning, handler_result, idx, visited, drift,
                   opened, ran, raised, saved, doc_reset, last_op, tog>>

\* 'Abort' or dismissal: execute_script returns at line 759.
confirm_abort ==
    /\ pc = "count_dialog"
    /\ UNCHANGED <<env, shown, snap, fn, script, ui>>
    /\ pc' = "declined"
    /\ UNCHANGED <<disk, status, result, warning, handler_result, wants_save,
                   idx, visited, drift, opened, ran, raised, saved, doc_reset,
                   last_op, tog>>

-----------------------------------------------------------------------------
(* Callbacks of the file-access dialog *)

DialogFrame ==
    UNCHANGED <<pc, result, warning, handler_result, wants_save, idx, visited,
                drift, opened, ran, raised, saved, doc_reset, env, snap, fn,
                script>>

\* Mutant: the Refresh callback re-classifies a skipped record too.
refresh_reclassifies(f) ==
    /\ pc = "dialog"
    /\ shown' = NoShown
    /\ status' = [status EXCEPT ![f] = check_file_status(disk[f])]
    /\ ui' = entry_refreshed(ui, status', f)
    /\ last_op' = [op |-> "refresh", f |-> f, exc |-> FALSE]
    /\ tog' = NoTog
    /\ UNCHANGED disk
    /\ DialogFrame

\* BatchScriptExecutionAccessEntry.refresh (lines 335-339).
refresh(f) ==
    /\ pc = "dialog"
    /\ shown' = NoShown
    /\ status' = [status EXCEPT ![f] = refresh_status(status[f], disk[f])]
    /\ ui' = entry_refreshed(ui, status', f)
    /\ last_op' = [op |-> "refresh", f |-> f, exc |-> FALSE]
    /\ tog' = NoTog
    /\ UNCHANGED disk
    /\ DialogFrame

\* BatchScriptExecutionAccessEntry.skip_file (lines 341-345): the toggle at
\* line 343 followed by refresh.
skip_file(f) ==
    /\ pc = "dialog"
    /\ shown' = NoShown
    /\ status' = [status EXCEPT ![f] =
                     refresh_status(skip_file_status(status[f], disk[f]), disk[f])]
    /\ ui' = entry_refreshed(ui, status', f)
    /\ last_op' = [op |-> "skip_file", f |-> f, exc |-> FALSE]
    /\ tog' = IF tog.f = f /\ tog.n = 1
              THEN [tog EXCEPT !.n = 2]
              ELSE [f |-> f, n |-> 1, pre |-> status[f]]
    /\ UNCHANGED disk
    /\ DialogFrame

\* BatchScriptExecutionAccessEntry.make_writable (lines 325-333) with
\* make_file_writable (lines 308-323).  Nothing happens unless the file is
\* read-only on disk now.  os.chmod either adds the write bit or raises
\* OSError; the handler then calls cmds.error, which raises, so the refresh
\* at line 332 is not reached.
make_writable(f) ==
    /\ pc = "dialog"
    /\ shown' = NoShown
    /\ tog' = NoTog
    /\ DialogFrame
    /\ IF check_file_status(disk[f]) = "read_only"
       THEN \E chmod_ok \in BOOLEAN :
              IF chmod_ok
              THEN /\ disk' = [disk EXCEPT ![f] = "writable"]
                   /\ status' = [status EXCEPT ![f] =
                                    refresh_status(status[f], disk'[f])]
                   /\ ui' = entry_refreshed(ui, status', f)
                   /\ last_op' = [op |-> "make_writable", f |-> f, exc |-> FALSE]
              ELSE /\ UNCHANGED <<disk, status, ui>>
                   /\ last_op' = [op |-> "make_writable", f |-> f, exc |-> TRUE]
       ELSE /\ UNCHANGED <<disk, status, ui>>
            /\ last_op' = [op |-> "make_writable", f |-> f, exc |-> FALSE]

\* BatchScriptExecutionAccessEntry.checkout_file (lines 288-297) with
\* checkout_file_perforce (lines 244-285).  o is what the provider does,
\* one of checkout_outcomes(env.provider):
\*   not_installed    the P4 module cannot be imported: a dialog, then
\*                    return (line 290), whatever the file's state;
\*   no_config        the p4config option is unset or empty: a dialog, False;
\*   config_exc       read_p4config or config["P4PORT"] raises: the
\*                    exception leaves checkout_file before the refresh at
\*                    line 296;
\*   ok               p4 edit succeeds and the file becomes writable;
\*   p4_fail          P4Exception: a dialog with hint "None", False;
\*   p4_fail_unknown  P4Exception "not on client.": a dialog with the
\*                    'Make Writable' hint, False.
\* The provider is reached only when the file is read-only on disk now
\* (line 294); otherwise nothing happens, not even the refresh.
checkout_file(f, o) ==
    /\ pc = "dialog"
    /\ o \in checkout_outcomes(env.provider)
    /\ tog' = NoTog
    /\ DialogFrame
    /\ IF o = "not_installed"
       THEN /\ UNCHANGED <<disk, status, ui>>
            /\ shown' = [kind |-> "not_installed", f |-> f]
            /\ last_op' = [op |-> "checkout_file", f |-> f, exc |-> FALSE]
       ELSE IF check_file_status(disk[f]) = "read_only"
       THEN IF o = "config_exc"
            THEN /\ UNCHANGED <<disk, status, ui>>
                 /\ shown' = NoShown
                 /\ last_op' = [op |-> "checkout_file", f |-> f, exc |-> TRUE]
            ELSE /\ disk' = IF o = "ok" THEN [disk EXCEPT ![f] = "writable"]
                            ELSE disk
                 /\ status' = [status EXCEPT ![f] =
                                  refresh_status(status[f], disk'[f])]
                 /\ ui' = entry_refreshed(ui, status', f)
                 /\ shown' = IF checkout_dialog(o) = "none" THEN NoShown
                             ELSE [kind |-> checkout_dialog(o), f |-> f]
                 /\ last_op' = [op |-> "checkout_file", f |-> f, exc |-> FALSE]
       ELSE /\ UNCHANGED <<disk, status, ui>>
            /\ shown' = NoShown
            /\ last_op' = [op |-> "checkout_file", f |-> f, exc |-> FALSE]

\* BatchScriptExecutionAccessHandler.press_checkout_button (lines 447-452).
\* self.files maps a path to one PendingFile, so the inner loop
\* 'for file in files' iterates a PendingFile and raises TypeError on the
\* first record, before any checkout; the dict is never empty here
\* (__init__ returns early on an empty dict, line 401).
press_checkout_button ==
    /\ pc = "dialog"
    /\ shown' = NoShown
    /\ last_op' = [op |-> "press_checkout_button", f |-> 0, exc |-> TRUE]
    /\ tog' = NoTog
    /\ UNCHANGED <<disk, status, ui>>
    /\ DialogFrame

\* BatchScriptExecutionAccessHandler.press_refresh_button (lines 454-459):
\* the same inner loop, the same TypeError before any refresh.
press_refresh_button ==
    /\ pc = "dialog"
    /\ shown' = NoShown
    /\ last_op' = [op |-> "press_refresh_button", f |-> 0, exc |-> TRUE]
    /\ tog' = NoTog
    /\ UNCHANGED <<disk, status, ui>>
    /\ DialogFrame

\* BatchScriptExecutionAccessHandler.press_continue_button (lines 466-472).
press_continue_button ==
    /\ pc = "dialog"
    /\ last_op' = [op |-> "press_continue_button", f |-> 0, exc |-> FALSE]
    /\ tog' = NoTog
    /\ shown' = NoShown
    /\ IF ~can_continue(status)
       THEN /\ UNCHANGED <<pc, handler_result, snap>>
            /\ ui' = update_continue_button(ui, status)
       ELSE /\ handler_result' = TRUE
            /\ snap' = status
            /\ ui' = NoUi
            /\ pc' = "closed"
    /\ UNCHANGED <<env, fn, script>>
    /\ UNCHANGED <<disk, status, result, warning, wants_save, idx, visited,
                   drift, opened, ran, raised, saved, doc_reset>>

\* BatchScriptExecutionAccessHandler.press_abort_button (lines 474-476).
press_abort_button ==
    /\ pc = "dialog"
    /\ shown' = NoShown
    /\ UNCHANGED <<env, snap, fn, script>>
    /\ ui' = NoUi
    /\ last_op' = [op |-> "press_abort_button", f |-> 0, exc |-> FALSE]
    /\ tog' = NoTog
    /\ handler_result' = FALSE
    /\ pc' = "closed"
    /\ UNCHANGED <<disk, status, result, warning, wants_save, idx, visited,
                   drift, opened, ran, raised, saved, doc_reset>>

\* The layoutDialog is dismissed without a button: result keeps the class
\* default False (line 393).
dismiss_dialog ==
    /\ pc = "dialog"
    /\ shown' = NoShown
    /\ UNCHANGED <<env, snap, fn, script>>
    /\ ui' = NoUi
    /\ last_op' = [op |-> "dismiss_dialog", f |-> 0, exc |-> FALSE]
    /\ tog' = NoTog
    /\ pc' = "closed"
    /\ UNCHANGED <<disk, status, result, warning, handler_result, wants_save,
                   idx, visited, drift, opened, ran, raised, saved, doc_reset>>

-----------------------------------------------------------------------------
(* execute_script after the dialog has closed (lines 769-823) *)

\* Lines 769-773: a batch that was not continued returns with a warning.
after_dialog ==
    /\ pc = "closed"
    /\ UNCHANGED <<env, shown, snap, fn, script, ui>>
    /\ IF batch_proceeds(handler_result)
       THEN pc' = "exec" /\ idx' = 1
       ELSE pc' = "aborted" /\ UNCHANGED idx
    /\ UNCHANGED <<disk, status, result, warning, handler_result, wants_save,
                   visited, drift, opened, ran, raised, saved, doc_reset,
                   last_op, tog>>

\* Lines 784-793: a record whose stored status is not writable gets its
\* result from that status and a warning; the loop continues.
exec_blocked ==
    /\ pc = "exec" /\ idx \in Files
    /\ UNCHANGED <<env, shown, snap, fn, script, ui>>
    /\ is_blocked(status[idx], disk[idx])
    /\ visited' = visited \cup {idx}
    /\ result' = [result EXCEPT ![idx] = blocked_result(status[idx], result[idx])]
    /\ warning' = [warning EXCEPT ![idx] = TRUE]
    /\ idx' = idx + 1
    /\ UNCHANGED <<pc, disk, status, handler_result, wants_save, drift, opened,
                   ran, raised, saved, doc_reset, last_op, tog>>

\* Lines 796-797, re-check not writable: drift, the loop goes on to line 799.
exec_recheck_drift ==
    /\ pc = "exec" /\ idx \in Files
    /\ UNCHANGED <<env, shown, snap, fn, script, ui>>
    /\ ~is_blocked(status[idx], disk[idx])
    /\ check_file_status(disk[idx]) # "writable"
    /\ visited' = visited \cup {idx}
    /\ drift' = [drift EXCEPT ![idx].st = check_file_status(disk[idx])]
    /\ pc' = "drift"
    /\ UNCHANGED <<disk, status, result, warning, handler_result, wants_save,
                   idx, opened, ran, raised, saved, doc_reset, last_op, tog>>

\* Mutant: the drift branch also stores the fresh classification.
exec_drift_result_reclassifies ==
    /\ pc = "drift"
    /\ UNCHANGED <<env, shown, snap, fn, script, ui>>
    /\ drift' = [drift EXCEPT ![idx].exists =
                    IF path_exists(disk[idx]) THEN "true" ELSE "false"]
    /\ result' = [result EXCEPT ![idx] = drift_result(path_exists(disk[idx]))]
    /\ status' = [status EXCEPT ![idx] = check_file_status(disk[idx])]
    /\ idx' = idx + 1
    /\ pc' = "exec"
    /\ UNCHANGED <<disk, warning, handler_result, wants_save, visited,
                   opened, ran, raised, saved, doc_reset, last_op, tog>>

\* Lines 799-802: os.path.exists is a second read of the filesystem; the
\* result is recorded and the record is not processed.
exec_drift_result ==
    /\ pc = "drift"
    /\ UNCHANGED <<env, shown, snap, fn, script, ui>>
    /\ drift' = [drift EXCEPT ![idx].exists =
                    IF path_exists(disk[idx]) THEN "true" ELSE "false"]
    /\ result' = [result EXCEPT ![idx] = drift_result(path_exists(disk[idx]))]
    /\ idx' = idx + 1
    /\ pc' = "exec"
    /\ UNCHANGED <<disk, status, warning, handler_result, wants_save, visited,
                   opened, ran, raised, saved, doc_reset, last_op, tog>>

\* Lines 796-816, re-check writable: the file is opened and the script run.
\* No try/except surrounds exec / mel.eval: an exception of the script
\* leaves execute_script.  result is not assigned on this path.
exec_process ==
    /\ pc = "exec" /\ idx \in Files
    /\ UNCHANGED <<env, shown, snap, fn, ui>>
    /\ script' = [script EXCEPT !.ran[idx] = script.command]
    /\ ~is_blocked(status[idx], disk[idx])
    /\ check_file_status(disk[idx]) = "writable"
    /\ visited' = visited \cup {idx}
    /\ drift' = [drift EXCEPT ![idx].st = "writable"]
    /\ opened' = opened \cup {idx}
    /\ ran' = ran \cup {idx}
    /\ \E script_raises \in BOOLEAN :
          IF script_raises
          THEN /\ raised' = raised \cup {idx}
               /\ pc' = "crashed"
               /\ UNCHANGED <<saved, idx>>
          ELSE /\ saved' = IF wants_save THEN saved \cup {idx} ELSE saved
               /\ idx' = idx + 1
               /\ UNCHANGED <<raised, pc>>
    /\ UNCHANGED <<disk, status, result, warning, handler_result, wants_save,
                   doc_reset, last_op, tog>>

\* Lines 818-823: after the loop the scene is reset and the results shown.
exec_finish ==
    /\ pc = "exec" /\ idx = NumFiles + 1
    /\ UNCHANGED <<env, shown, snap, fn, script, ui>>
    /\ doc_reset' = TRUE
    /\ pc' = "done"
    /\ UNCHANGED <<disk, status, result, warning, handler_result, wants_save,
                   idx, visited, drift, opened, ran, raised, saved, last_op,
                   tog>>

-----------------------------------------------------------------------------

Next ==
    \/ \E f \in Files, d \in DiskStates : FsChange(f, d)
    \/ execute_script_begin
    \/ confirm_continue
    \/ confirm_abort
    \/ \E f \in Files : refresh(f)
    \/ \E f \in Files : skip_file(f)
    \/ \E f \in Files : make_writable(f)
    \/ \E f \in Files, o \in CheckoutOutcomes : checkout_file(f, o)
    \/ press_checkout_button
    \/ press_refresh_button
    \/ press_continue_button
    \/ press_abort_button
    \/ dismiss_dialog
    \/ after_dialog
    \/ exec_blocked
    \/ exec_recheck_drift
    \/ exec_drift_result
    \/ exec_process
    \/ exec_finish

Spec == Init /\ [][Next]_vars

TypeOK ==
    /\ pc \in {"invoked", "cancelled", "start", "rejected", "count_dialog", "declined", "dialog",
               "closed", "aborted", "exec", "drift", "crashed", "done"}
    /\ disk \in [Files -> DiskStates]
    /\ status \in [Files -> FileStatus \cup {"none"}]
    /\ result \in [Files -> FileResult \cup {"none"}]
    /\ warning \in [Files -> BOOLEAN]
    /\ handler_result \in BOOLEAN
    /\ wants_save \in BOOLEAN
    /\ idx \in 0..(NumFiles + 1)
    /\ visited \subseteq Files
    /\ opened \subseteq Files /\ ran \subseteq Files
    /\ raised \subseteq Files /\ saved \subseteq Files
    /\ doc_reset \in BOOLEAN
    /\ ui.open \in BOOLEAN
    /\ ui.open <=> pc = "dialog"
    /\ script.command \in {"none", "old", "new"}
    /\ env.dir \in DirStates /\ env.provider \in Providers
    /\ snap \in [Files -> FileStatus \cup {"none"}]

-----------------------------------------------------------------------------
(* Properties *)

NoneTouched ==
    /\ opened = {} /\ ran = {} /\ saved = {}
    /\ \A f \in Files : result[f] = "none" /\ ~warning[f]

SomeReadOnly == \E f \in Files : status[f] = "read_only"

InExecution == pc \in {"exec", "drift", "crashed", "done"}

C1_Inv ==
    /\ InExecution => (handler_result /\ ~SomeReadOnly)
    /\ SomeReadOnly => NoneTouched

C1_Step ==
    (pc = "dialog" /\ SomeReadOnly) => ~(pc' = "closed" /\ handler_result')

\* C1: the execution phase starts only through Continue pressed while no
\* record is read_only: a step taken in the dialog while some record is
\* read_only never closes it with result True; the execution phase is only
\* ever reached with result True and no read_only record; and as long as a
\* record is read_only no file is opened, run or saved and no result or
\* warning is recorded.
C1_ContinueGate == [](C1_Inv) /\ [][C1_Step]_vars

\* Continue was pressed while a record was read_only and the dialog stayed
\* open.
C1_Witness ==
    /\ pc = "dialog"
    /\ last_op.op = "press_continue_button"
    /\ SomeReadOnly
    /\ \E f \in Files : status[f] = "writable"

\* C2: once the records exist, can_continue is true exactly when no record
\* has stored status read_only; it is true when all records are
\* does_not_exist and when all are writable or skip, and false when some
\* record is read_only, skipped records notwithstanding.
C2_CanProceed ==
    (\A f \in Files : status[f] # "none") =>
        /\ can_continue(status) <=> (\A f \in Files : status[f] # "read_only")
        /\ (\A f \in Files : status[f] = "does_not_exist") => can_continue(status)
        /\ (\A f \in Files : status[f] \in {"writable", "skip"})
              => can_continue(status)
        /\ (\E f \in Files : status[f] = "read_only") => ~can_continue(status)

\* Continue was refused for a collection whose last record is read_only and
\* whose other records are skipped or missing.
C2_Witness ==
    /\ pc = "dialog"
    /\ last_op.op = "press_continue_button"
    /\ status[NumFiles] = "read_only"
    /\ status[1] = "skip"
    /\ ~can_continue(status)

\* C3: when the execution pass has ended, every record has been attempted,
\* and a file on which the script raised has result failed with a
\* diagnostic.
C3_FailSoft ==
    pc \in {"done", "crashed"} =>
        /\ visited = Files
        /\ \A f \in raised : result[f] = "failed" /\ warning[f]

\* C4: a record that was writable at Continue and at the re-check has been
\* opened, run and (if wanted) saved, and has result success when the script
\* did not raise and failed, with a diagnostic, when it raised.
C4_Outcome ==
    \A f \in Files :
        (status[f] = "writable" /\ drift[f].st = "writable") =>
            /\ f \in opened /\ f \in ran
            /\ (f \notin raised /\ wants_save) => f \in saved
            /\ f \notin raised => result[f] = "success"
            /\ f \in raised => (result[f] = "failed" /\ warning[f])

\* C5: a record writable at Continue whose re-check did not return writable
\* is never opened, run or saved; when the file was absent at both reads of
\* the re-check its result is file_missing, and when it was present and
\* read-only at both its result is file_tampered.
C5_Drift ==
    \A f \in Files :
        (status[f] = "writable" /\ drift[f].st \notin {"none", "writable"}) =>
            /\ f \notin opened /\ f \notin ran /\ f \notin saved
            /\ (drift[f].st = "does_not_exist" /\ drift[f].exists = "false")
                  => result[f] = "file_missing"
            /\ (drift[f].st = "read_only" /\ drift[f].exists = "true")
                  => result[f] = "file_tampered"

\* One record was found deleted and another read-only by the re-check.
C5_Witness ==
    \E f, g \in Files :
        /\ status[f] = "writable" /\ status[g] = "writable"
        /\ drift[f] = [st |-> "does_not_exist", exists |-> "false"]
        /\ result[f] = "file_missing"
        /\ drift[g] = [st |-> "read_only", exists |-> "true"]
        /\ result[g] = "file_tampered"

\* C6: a record the loop has visited whose stored status is not writable has
\* the result its status names and a diagnostic, and is never opened, run
\* or saved, whatever is on disk.
C6_Blocked ==
    \A f \in visited :
        status[f] # "writable" =>
            /\ status[f] = "skip" => result[f] = "file_skipped"
            /\ status[f] = "does_not_exist" => result[f] = "file_not_found"
            /\ status[f] = "read_only" => result[f] = "file_read_only"
            /\ warning[f]
            /\ f \notin opened /\ f \notin ran /\ f \notin saved

\* A skipped record and a missing one were visited while both files were
\* writable on disk.
C6_Witness ==
    \E f, g \in visited :
        /\ status[f] = "skip" /\ disk[f] = "writable"
        /\ result[f] = "file_skipped"
        /\ status[g] = "does_not_exist" /\ disk[g] = "writable"
        /\ result[g] = "file_not_found"

\* C7: when execute_script has ended after entering the execution phase,
\* the host document has been reset.
C7_Reset == pc \in {"done", "crashed"} => doc_reset

\* C8: unless the access dialog was closed with Continue, no file is opened,
\* run or saved and no result or warning is recorded; a batch declined at
\* the count dialog or aborted at the access dialog ends that way.
C8_Declined ==
    /\ ~handler_result => NoneTouched
    /\ pc \in {"declined", "aborted"} => (~handler_result /\ NoneTouched)

\* The access dialog was aborted although every record allowed Continue.
C8_Witness ==
    /\ pc = "aborted"
    /\ last_op.op = "press_abort_button"
    /\ can_continue(status)
    /\ \E f \in Files : status[f] = "writable" /\ disk[f] = "writable"

C9_Step ==
    \A f \in Files :
        (status[f] = "skip" /\ status'[f] # "skip") =>
            /\ last_op' = [op |-> "skip_file", f |-> f, exc |-> FALSE]
            /\ status'[f] = check_file_status(disk'[f])

\* C9: a step that takes a record out of skip is skip_file on that record,
\* and the record then holds the classification of its file on disk.
C9_SkipSticky == [][C9_Step]_vars

\* A checkout made the file of a skipped record writable and the record
\* stayed skipped.
C9_Witness ==
    \E f \in Files :
        /\ last_op = [op |-> "checkout_file", f |-> f, exc |-> FALSE]
        /\ status[f] = "skip"
        /\ disk[f] = "writable"

\* C10: after two consecutive skip_file calls on a record with no filesystem
\* change and no other callback in between, a record that was not skipped
\* holds the classification of its file, and a skipped one is skipped.
C10_ToggleTwice ==
    tog.n = 2 =>
        IF tog.pre # "skip"
        THEN status[tog.f] = check_file_status(disk[tog.f])
        ELSE status[tog.f] = "skip"

\* Two toggles of a record whose stored read_only was stale.
C10_Witness ==
    /\ tog.n = 2
    /\ tog.pre = "read_only"
    /\ status[tog.f] = "writable"

C11_Step ==
    /\ press_refresh_button =>
          /\ ~last_op'.exc
          /\ \A f \in Files :
                status'[f] # "skip" => status'[f] = check_file_status(disk'[f])
    /\ press_checkout_button =>
          /\ ~last_op'.exc
          /\ \A f \in Files :
                status[f] = "read_only" =>
                    status'[f] = check_file_status(disk'[f])

\* C11: a press of Refresh All ends without an error and leaves every
\* non-skipped record at the classification of its file; a press of Checkout
\* All ends without an error and leaves every record that was read_only
\* re-classified.
C11_BulkOps == [][C11_Step]_vars

ProviderFailures == {"p4_fail", "p4_fail_unknown"}

C12_Original_Step ==
    \A f \in Files, o \in ProviderFailures :
        (checkout_file(f, o) /\ status[f] = "read_only"
                             /\ disk[f] = "read_only") =>
            /\ status'[f] = "read_only"
            /\ warning'[f]
            /\ \A g \in Files \ {f} : status'[g] = status[g]
            /\ pc' = "dialog"

\* C12 as claimed: a checkout of a read_only record that the provider fails
\* leaves the record read_only, sets a diagnostic on that record, changes no
\* other record and leaves the dialog open for further checkouts.
C12_DiagnosticAttached == [][C12_Original_Step]_vars

C12_Step ==
    \A f \in Files, o \in ProviderFailures :
        (last_op'.op = "checkout_file" /\ status[f] = "read_only"
            /\ disk[f] = "read_only" /\ checkout_file(f, o)) =>
            /\ status'[f] = "read_only"
            /\ shown' = [kind |-> IF o = "p4_fail_unknown" THEN "p4_fail_hint"
                                  ELSE "p4_fail",
                         f |-> f]
            /\ warning' = warning
            /\ ~last_op'.exc
            /\ \A g \in Files \ {f} : status'[g] = status[g]
            /\ pc' = "dialog"

\* C12 as amended: a checkout of a read_only record that the provider fails
\* leaves the record read_only and shows a dialog for that file, with the
\* 'Make Writable' hint exactly when the file is unknown to the provider; no
\* diagnostic is stored on any record, no other record changes and the
\* dialog stays open for further checkouts.
C12_FailureShown == [][C12_Step]_vars

\* A failed checkout of an unknown file was reported with the hint while
\* another record is still read_only.
C12_Witness ==
    \E f \in Files :
        /\ shown = [kind |-> "p4_fail_hint", f |-> f]
        /\ last_op = [op |-> "checkout_file", f |-> f, exc |-> FALSE]
        /\ status[f] = "read_only"
        /\ ~warning[f]
        /\ \E g \in Files \ {f} : status[g] = "read_only"

C13_Step ==
    \A f \in Files, o \in {"no_config", "config_exc"} :
        (checkout_file(f, o) /\ status[f] = "read_only"
                             /\ disk[f] = "read_only") =>
            /\ ~last_op'.exc
            /\ shown'.kind # "none"
            /\ pc' = "dialog"

\* C13: a checkout of a read_only record under an unset, missing or
\* incomplete provider configuration ends without an unhandled exception,
\* with an error dialog shown, and leaves the dialog open.
C13_ConfigErrorReported == [][C13_Step]_vars

C14_Step ==
    \A f \in Files, o \in {"not_installed", "no_config"} :
        (checkout_file(f, o) /\ status[f] = "read_only") =>
            /\ status' = status
            /\ disk' = disk
            /\ shown' = [kind |-> o, f |-> f]

\* C14: a checkout of a read_only record while the provider is not installed
\* or not configured changes no record and no file and shows the
\* configuration error.
C14_NoProviderNoOp == [][C14_Step]_vars

BadStart == env.dir # "ok" \/ env.scanned = 0 \/ env.kept = 0

\* C15: when the scan root is unset, missing, not a directory or not
\* writable, or the scan or the filter leaves no file, execute_script ends
\* with the matching error dialog, and no record is ever built, no
\* confirmation shown and no file opened.
C15_ScanErrorsFatal ==
    BadStart =>
        /\ pc \in {"start", "rejected"}
        /\ \A f \in Files : status[f] = "none"
        /\ NoneTouched
        /\ pc = "rejected" =>
              shown.kind =
                 CASE env.dir = "unset" -> "dir_unset"
                   [] env.dir = "missing" -> "dir_missing"
                   [] env.dir = "not_dir" -> "dir_not_dir"
                   [] env.dir = "not_writable" -> "dir_not_writable"
                   [] env.dir = "ok" /\ env.scanned = 0 -> "dir_empty"
                   [] OTHER -> "filtered_empty"

\* A scan that found files, all of which the filter removed, was rejected.
C15_Witness ==
    /\ pc = "rejected"
    /\ env.dir = "ok" /\ env.scanned = NumFiles /\ env.kept = 0
    /\ shown.kind = "filtered_empty"

NoProvider == env.provider \in {"not_installed", "no_config"}

\* C16 as claimed: without a configured provider the batch never starts: no
\* count dialog, no record, no file opened.
C16_ProviderFatal ==
    NoProvider =>
        /\ pc \in {"start", "rejected"}
        /\ \A f \in Files : status[f] = "none"
        /\ NoneTouched

\* C16 as amended: execute_script is rejected only for a scan-root or
\* scan-result error, never for the provider; a missing or unconfigured
\* provider is reported only by a checkout in the access dialog, as the
\* dialog that checkout shows.
C16_ProviderNotFatal ==
    /\ pc = "rejected" => BadStart
    /\ shown.kind \in {"not_installed", "no_config"} =>
          /\ pc = "dialog"
          /\ env.provider = shown.kind
          /\ last_op = [op |-> "checkout_file", f |-> shown.f, exc |-> FALSE]

\* Without an installed provider a checkout was refused, and the batch then
\* ran to its end and opened a file.
C16_Witness ==
    /\ env.provider = "not_installed"
    /\ pc = "done"
    /\ opened # {}

C19_Step ==
    \A f \in Files :
        (status[f] = "read_only"
           /\ (make_writable(f) \/ checkout_file(f, "ok"))) =>
            status'[f] = check_file_status(disk'[f])

\* C19: Make Writable, or a checkout the provider completes, on a record
\* whose stored status is read_only leaves the record at the classification
\* of its file on disk.
C19_Reclassified == [][C19_Step]_vars

\* C20: every file that was opened, run or saved had status writable when
\* Continue closed the dialog.
C20_OnlyWritableOpened ==
    \A f \in opened \cup ran \cup saved : snap[f] = "writable"

\* A file was opened while a record skipped at Continue, whose file is
\* writable, was passed over.
C20_Witness ==
    /\ \E f \in opened : snap[f] = "writable"
    /\ \E g \in visited \ opened : snap[g] = "skip" /\ disk[g] = "writable"

C21_Step ==
    \A f \in Files :
        (last_op'.op = "refresh" /\ status[f] # "skip" /\ refresh(f)) =>
            /\ status'[f] = check_file_status(disk[f])
            /\ \A g \in Files \ {f} : status'[g] = status[g]
            /\ disk' = disk /\ warning' = warning
            /\ shown' = NoShown /\ ~last_op'.exc
            /\ (status[f] = "writable" /\ disk[f] = "writable") =>
                  status' = status
            /\ status'[f] = refresh_status(status'[f], disk'[f])

\* C21: refresh on a record that is not skipped stores the classification
\* of its file and changes nothing else; on a writable record whose file is
\* writable it leaves the status writable, sets no warning and shows no
\* dialog; and a second refresh of the resulting record on the same
\* filesystem would store the same status again.
C21_RefreshIdempotent == [][C21_Step]_vars

\* A refresh has just re-classified the record of a file that is gone.
C21_Witness ==
    \E f \in Files :
        /\ pc = "dialog"
        /\ last_op = [op |-> "refresh", f |-> f, exc |-> FALSE]
        /\ status[f] = "does_not_exist"
        /\ disk[f] = "absent"

Classified == {"does_not_exist", "writable", "read_only"}

C22_Step ==
    /\ \A d \in DiskStates :
          check_file_status(d) =
             CASE d = "absent" -> "does_not_exist"
               [] d = "writable" -> "writable"
               [] d = "read_only" -> "read_only"
    /\ confirm_continue =>
          /\ disk' = disk
          /\ \A f \in Files : /\ status'[f] = check_file_status(disk[f])
                              /\ status'[f] \in Classified
    /\ exec_recheck_drift => (disk' = disk /\ status' = status)

\* C22: check_file_status gives does_not_exist for a missing path, writable
\* for a writable file and read_only for any other file, never skip; the
\* construction of the records and the re-check in the loop change no file,
\* the re-check changes no record, and every freshly built record has one of
\* these three statuses.
C22_ClassifyTotalPure == [][C22_Step]_vars

\* The records have just been built, one for a missing file and one for a
\* read-only file.
C22_Witness ==
    /\ pc = "dialog"
    /\ last_op = NoOp
    /\ \E f, g \in Files :
          /\ status[f] = "does_not_exist" /\ disk[f] = "absent"
          /\ status[g] = "read_only" /\ disk[g] = "read_only"

\* C23: every record with a result other than success has its warning set.
C23_DiagnosticSet ==
    \A f \in Files : result[f] \notin {"none", "success"} => warning[f]

C24_Step ==
    /\ InExecution => status' = status
    /\ InExecution' => status' = snap'

\* C24: no step of the execution loop changes the status of any record, so
\* throughout the loop every status is what it was when Continue closed the
\* dialog, also for a record on which drift was detected.
C24_StatusFrozen == [][C24_Step]_vars

\* The batch is over, drift was detected on a file that is now read-only,
\* and its record is still writable.
C24_Witness ==
    /\ pc = "done"
    /\ \E f \in Files :
          /\ result[f] = "file_tampered"
          /\ disk[f] = "read_only"
          /\ status[f] = "writable" /\ snap[f] = "writable"

\* C25: a record has result file_missing only if the re-check at line 796
\* returned does_not_exist, and file_tampered only if it returned read_only.
C25_DriftAgrees ==
    \A f \in Files :
        /\ result[f] = "file_missing" => drift[f].st = "does_not_exist"
        /\ result[f] = "file_tampered" => drift[f].st = "read_only"

\* C26: in the execution loop no record has status read_only, and no record
\* ever gets the result file_read_only.
C26_ReadOnlyUnreachable ==
    /\ InExecution => \A f \in Files : status[f] # "read_only"
    /\ \A f \in Files : result[f] # "file_read_only"

\* The batch is over; a file that is read-only was passed as skipped.
C26_Witness ==
    /\ pc = "done"
    /\ \E f \in Files :
          /\ snap[f] = "skip"
          /\ disk[f] = "read_only"
          /\ result[f] = "file_skipped"

\* C27: while the access dialog is open, Continue is enabled iff
\* can_continue holds, Checkout All iff it does not, Checkout and Make
\* Writable of an entry iff its status is read_only, and its Refresh iff its
\* status is not skip.
C27_Controls ==
    pc = "dialog" =>
        /\ ui.continue = can_continue(status)
        /\ ui.checkout_all = ~can_continue(status)
        /\ \A f \in Files :
              /\ ui.entry[f].checkout = (status[f] = "read_only")
              /\ ui.entry[f].writable = (status[f] = "read_only")
              /\ ui.entry[f].refresh = (status[f] # "skip")

-----------------------------------------------------------------------------
(* The scanner and the filter stage are pure functions of the directory     *)
(* tree and of the settings fields.  Each is applied, as the code computes  *)
(* it, to inputs drawn in the initial state of a specification of its own;  *)
(* the batch itself does not move there.                                    *)

\* Everything but fn.
batch_vars == <<pc, disk, status, result, warning, handler_result, wants_save,
                idx, visited, drift, opened, ran, raised, saved, doc_reset,
                last_op, tog, env, shown, snap, script, ui>>

\* Execute has been pressed and execute_script has not read anything yet.
BatchAtStart ==
    /\ pc = "start"
    /\ env = [dir |-> "ok", scanned |-> NumFiles, kept |-> NumFiles,
              provider |-> "ok"]
    /\ shown = NoShown
    /\ snap = [f \in Files |-> "none"]
    /\ script = [editor |-> "old", last_command |-> "old", stored |-> "old",
                 stored0 |-> "old", answer |-> "none", command |-> "none",
                 ran |-> [f \in Files |-> "none"]]
    /\ ui = NoUi
    /\ disk = [f \in Files |-> "writable"]
    /\ status = [f \in Files |-> "none"]
    /\ result = [f \in Files |-> "none"]
    /\ warning = [f \in Files |-> FALSE]
    /\ handler_result = FALSE
    /\ wants_save = FALSE
    /\ idx = 0
    /\ visited = {}
    /\ drift = [f \in Files |-> NoDrift]
    /\ opened = {}
    /\ ran = {}
    /\ raised = {}
    /\ saved = {}
    /\ doc_reset = FALSE
    /\ last_op = NoOp
    /\ tog = NoTog

\* A str is the sequence of its characters.
Range(s) == {s[i] : i \in DOMAIN s}

\* str.startswith, str.endswith, `p in s`
startswith(s, p) == Len(p) <= Len(s) /\ SubSeq(s, 1, Len(p)) = p

endswith(s, p) ==
    Len(p) <= Len(s) /\ SubSeq(s, Len(s) - Len(p) + 1, Len(s)) = p

contains(s, p) ==
    \E i \in 1..(Len(s) - Len(p) + 1) : SubSeq(s, i, i + Len(p) - 1) = p

\* str.split(c) for a one-character separator
RECURSIVE split(_, _)
split(s, c) ==
    IF \A i \in 1..Len(s) : s[i] # c
    THEN <<s>>
    ELSE LET k == CHOOSE i \in 1..Len(s) :
                      s[i] = c /\ \A j \in 1..(i - 1) : s[j] # c
         IN  <<SubSeq(s, 1, k - 1)>> \o split(SubSeq(s, k + 1, Len(s)), c)

\* os.path.basename on a normalised path
basename(path) == LET parts == split(path, "/") IN parts[Len(parts)]

-----------------------------------------------------------------------------
(* do_gather_maya_files (lines 638-669) *)

\* Most directories in a tree, the root included, and the largest value of
\* the recursion depth field.
MaxDirs == 3

MaxDepth == 2

Dirs == 1..MaxDirs

A_MA == <<"a", ".", "m", "a">>

B_MB == <<"b", ".", "m", "b">>

C_TXT == <<"c", ".", "t", "x", "t">>

\* Names a file in a directory may have, in the order os.scandir lists them.
NameOrder == <<A_MA, B_MB, C_TXT>>

\* Every subdirectory is named like a Maya file.
SubdirName == <<"d", ".", "m", "a">>

\* Directory 1 is the root; every other directory lies in an earlier one.
ParentMaps(n) ==
    {p \in [1..n -> 0..(n - 1)] :
        p[1] = 0 /\ \A i \in 2..n : p[i] \in 1..(i - 1)}

\* os.scandir(directory): the files, then the subdirectories.  A path is the
\* pair of its directory and its name.
scandir(t, d) ==
    LET names == SelectSeq(NameOrder, LAMBDA nm : nm \in t.content[d])
        subs == SelectSeq([i \in 1..t.n |-> i], LAMBDA i : t.parent[i] = d)
    IN  [i \in 1..Len(names) |->
            [name |-> names[i], is_file |-> TRUE, dir |-> 0]]
        \o [i \in 1..Len(subs) |->
            [name |-> SubdirName, is_file |-> FALSE, dir |-> subs[i]]]

\* The files of one directory the loop at lines 654-658 appends.
maya_files_in(t, directory) ==
    LET here == SelectSeq(scandir(t, directory),
                    LAMBDA e : e.is_file /\ (endswith(e.name, <<".", "m", "b">>)
                                         \/ endswith(e.name, <<".", "m", "a">>)))
    IN  [i \in 1..Len(here) |-> <<directory, here[i].name>>]

\* Mutant: the recursion passes recursion_depth on without decrementing it.
RECURSIVE do_gather_same_depth(_, _, _)
RECURSIVE gather_subdirs_same_depth(_, _, _)
gather_subdirs_same_depth(t, entries, recursion_depth) ==
    IF entries = <<>> THEN <<>>
    ELSE (IF ~Head(entries).is_file
          THEN do_gather_same_depth(t, Head(entries).dir, recursion_depth)
          ELSE <<>>)
         \o gather_subdirs_same_depth(t, Tail(entries), recursion_depth)

do_gather_same_depth(t, directory, recursion_depth) ==
    IF recursion_depth < 0 THEN <<>>
    ELSE maya_files_in(t, directory)
         \o (IF recursion_depth > 0
             THEN gather_subdirs_same_depth(t, scandir(t, directory),
                                            recursion_depth)
             ELSE <<>>)

RECURSIVE do_gather_maya_files(_, _, _)
RECURSIVE gather_subdirs(_, _, _)
\* The loop at lines 660-667 over the entries not yet visited.
gather_subdirs(t, entries, recursion_depth) ==
    IF entries = <<>> THEN <<>>
    ELSE (IF ~Head(entries).is_file
          THEN do_gather_maya_files(t, Head(entries).dir, recursion_depth - 1)
          ELSE <<>>)
         \o gather_subdirs(t, Tail(entries), recursion_depth)

do_gather_maya_files(t, directory, recursion_depth) ==
    IF recursion_depth < 0 THEN <<>>
    ELSE maya_files_in(t, directory)
         \o (IF recursion_depth > 0
             THEN gather_subdirs(t, scandir(t, directory), recursion_depth)
             ELSE <<>>)

InitScan ==
    /\ BatchAtStart
    /\ \E n \in Dirs : \E p \in ParentMaps(n) :
       \E c \in [1..n -> SUBSET Range(NameOrder)] :
       \E d \in (0 - 1)..MaxDepth :
          fn = [kind |-> "scan_in",
                tree |-> [n |-> n, parent |-> p, content |-> c],
                depth |-> d, out |-> <<>>]

\* gather_maya_files, lines 682-684: the scan of the root with the depth
\* read from the recursion depth field.
gather_maya_files ==
    /\ fn.kind = "scan_in"
    /\ fn' = [fn EXCEPT !.kind = "scan_out",
                        !.out = do_gather_maya_files(fn.tree, 1, fn.depth)]
    /\ UNCHANGED batch_vars

NextScan == gather_maya_files

SpecScan == InitScan /\ [][NextScan]_vars

\* Number of steps from the root down to directory d.
RECURSIVE hops(_, _)
hops(t, d) == IF d = 1 THEN 0 ELSE 1 + hops(t, t.parent[d])

MayaNames == {A_MA, B_MB}

\* C17: a scan with a negative depth returns nothing; a scan with depth 0
\* returns exactly the Maya files directly in the root; a scan with depth
\* k > 0 returns exactly the depth-0 results of the directories at most k
\* steps below the root, each path once.
C17_ScanDepth ==
    fn.kind = "scan_out" =>
        LET t == fn.tree
            k == fn.depth
            out == fn.out
        IN  /\ k < 0 => out = <<>>
            /\ k = 0 =>
                  Range(out) = {<<1, nm>> : nm \in t.content[1] \cap MayaNames}
            /\ k > 0 =>
                  Range(out) =
                     UNION {Range(do_gather_maya_files(t, d, 0)) :
                               d \in {x \in 1..t.n : hops(t, x) <= k}}
            /\ Cardinality(Range(out)) = Len(out)

\* A scan of depth 1 of a chain of three directories returned the Maya file
\* of the directory one step down and left out the one two steps down.
C17_Witness ==
    /\ fn.kind = "scan_out"
    /\ fn.depth = 1
    /\ fn.tree.n = 3
    /\ fn.tree.parent[3] = 2
    /\ C_TXT \in fn.tree.content[1]
    /\ A_MA \in fn.tree.content[2]
    /\ A_MA \in fn.tree.content[3]
    /\ <<2, A_MA>> \in Range(fn.out)
    /\ <<3, A_MA>> \notin Range(fn.out)

-----------------------------------------------------------------------------
(* The filter stage of execute_script (lines 712-740) *)

\* Most files in the scan result handed to the filter stage.
MaxScanned == 2

\* Paths the scan may have returned: a.ma, b.mb, ab.ma, a.b.ma, b/ba.mb
ScannedPaths ==
    {A_MA, B_MB,
     <<"a", "b", ".", "m", "a">>,
     <<"a", ".", "b", ".", "m", "a">>,
     <<"b", "/", "b", "a", ".", "m", "b">>}

\* Texts of the prefix, suffix and filter string fields: empty, a, b, a.
FilterTexts == {<<>>, <<"a">>, <<"b">>, <<"a", ".">>}

\* Texts of the file type field: empty, ma, mb and "ma, mb"
FileTypeTexts ==
    {<<>>, <<"m", "a">>, <<"m", "b">>, <<"m", "a", ",", " ", "m", "b">>}

\* Lines 717-719: the field is split at commas after its spaces are removed;
\* an empty field stays the empty string.
parse_file_type(file_type) ==
    IF file_type = <<>> THEN <<>>
    ELSE split(SelectSeq(file_type, LAMBDA ch : ch # " "), ",")

\* Lines 724-738 for one file; file_type is the parsed field.
is_kept(file, prefix, suffix, filter_string, file_type) ==
    LET parts == split(basename(file), ".")
        file_extension == parts[Len(parts)]
        file_name == parts[1]
    IN  /\ ~(prefix # <<>> /\ startswith(file_name, prefix))
        /\ ~(suffix # <<>> /\ endswith(file_name, suffix))
        /\ ~(filter_string # <<>> /\ contains(file_name, filter_string))
        /\ ~(file_type # <<>> /\ file_extension \notin Range(file_type))

\* Lines 721-740: filtered_files, in the order of maya_files.
filter_files(maya_files, prefix, suffix, filter_string, file_type) ==
    SelectSeq(maya_files,
              LAMBDA file : is_kept(file, prefix, suffix, filter_string,
                                    parse_file_type(file_type)))

\* The filter stage is reached with a non-empty scan result (line 706).
InitFilter ==
    /\ BatchAtStart
    /\ \E n \in 1..MaxScanned : \E fs \in [1..n -> ScannedPaths] :
       \E p \in FilterTexts, sf \in FilterTexts, fl \in FilterTexts :
       \E ft \in FileTypeTexts :
          fn = [kind |-> "filter_in", files |-> fs, prefix |-> p,
                suffix |-> sf, filter_string |-> fl, file_type |-> ft,
                out |-> <<>>]

filter_stage ==
    /\ fn.kind = "filter_in"
    /\ fn' = [fn EXCEPT !.kind = "filter_out",
                        !.out = filter_files(fn.files, fn.prefix, fn.suffix,
                                             fn.filter_string, fn.file_type)]
    /\ UNCHANGED batch_vars

NextFilter == filter_stage

SpecFilter == InitFilter /\ [][NextFilter]_vars

\* The basename without its extension: up to its last dot.
without_extension(base) ==
    LET dots == {i \in 1..Len(base) : base[i] = "."}
    IN  IF dots = {} THEN base
        ELSE SubSeq(base, 1, (CHOOSE i \in dots : \A j \in dots : j <= i) - 1)

\* The extension: what follows the last dot of the basename.
extension_of(base) ==
    SubSeq(base, Len(without_extension(base)) + 2, Len(base))

\* The file is kept as the filter stage is described: the prefix is tested
\* on the basename, the suffix and the substring on the basename without its
\* extension, the extension against the allow-list.
described_keep(file, prefix, suffix, filter_string, file_type) ==
    LET base == basename(file)
        allowed == Range(parse_file_type(file_type))
    IN  /\ ~(prefix # <<>> /\ startswith(base, prefix))
        /\ ~(suffix # <<>> /\ endswith(without_extension(base), suffix))
        /\ ~(filter_string # <<>>
               /\ contains(without_extension(base), filter_string))
        /\ ~(file_type # <<>> /\ extension_of(base) \notin allowed)

\* C18: the filter stage returns, in their original order, exactly the
\* scanned files whose basename does not start with the non-empty prefix,
\* whose basename without extension neither ends with the non-empty suffix
\* nor contains the non-empty filter string, and whose extension is in the
\* non-empty allow-list.
C18_FilterStage ==
    fn.kind = "filter_out" =>
        fn.out = SelectSeq(fn.files,
                    LAMBDA file : described_keep(file, fn.prefix, fn.suffix,
                                      fn.filter_string, fn.file_type))

-----------------------------------------------------------------------------
(* The unsaved-changes prompt of execute_script (lines 688-697) and the     *)
(* command the batch runs (lines 700, 809-812)                              *)

\* Texts of the script editor and of the saved command.
CommandTexts == {"old", "new"}

\* What the 'Unsaved Changes' confirmDialog can return: one of its buttons,
\* or "dismiss" when it is closed without one.
Answers == {"Yes", "No", "Cancel", "dismiss"}

\* Execute was pressed in the script window.  The saved command and
\* last_command are equal (lines 507-509, 626-627), the editor holds that
\* text or an edited one, the scan will find files and no checkout
\* provider is installed.
InitCommand ==
    /\ pc = "invoked"
    /\ env = [dir |-> "ok", scanned |-> NumFiles, kept |-> NumFiles,
              provider |-> "not_installed"]
    /\ \E ed \in CommandTexts :
          script = [editor |-> ed, last_command |-> "old", stored |-> "old",
                    stored0 |-> "old", answer |-> "none", command |-> "none",
                    ran |-> [f \in Files |-> "none"]]
    /\ shown = NoShown
    /\ snap = [f \in Files |-> "none"]
    /\ fn = NoFn
    /\ ui = NoUi
    /\ disk \in [Files -> {"writable", "read_only"}]
    /\ status = [f \in Files |-> "none"]
    /\ result = [f \in Files |-> "none"]
    /\ warning = [f \in Files |-> FALSE]
    /\ handler_result = FALSE
    /\ wants_save = FALSE
    /\ idx = 0
    /\ visited = {}
    /\ drift = [f \in Files |-> NoDrift]
    /\ opened = {}
    /\ ran = {}
    /\ raised = {}
    /\ saved = {}
    /\ doc_reset = FALSE
    /\ last_op = NoOp
    /\ tog = NoTog

\* Lines 688-697.  has_pending_changes compares the editor with
\* last_command; 'Yes' calls save_changes (lines 624-627), 'Cancel' returns,
\* any other answer goes on without saving.
execute_script_prompt(a) ==
    /\ pc = "invoked"
    /\ IF script.editor # script.last_command
       THEN /\ a \in Answers
            /\ script' = IF a = "Yes"
                         THEN [script EXCEPT !.last_command = script.editor,
                                             !.stored = script.editor,
                                             !.answer = a]
                         ELSE [script EXCEPT !.answer = a]
            /\ pc' = IF a = "Cancel" THEN "cancelled" ELSE "start"
       ELSE /\ a = "none"
            /\ UNCHANGED script
            /\ pc' = "start"
    /\ UNCHANGED <<disk, status, result, warning, handler_result, wants_save,
                   idx, visited, drift, opened, ran, raised, saved, doc_reset,
                   last_op, tog, env, shown, snap, fn, ui>>

NextCommand ==
    \/ \E a \in Answers \cup {"none"} : execute_script_prompt(a)
    \/ Next

SpecCommand == InitCommand /\ [][NextCommand]_vars

\* C28: after 'Cancel' no batch starts; after 'Yes' the saved command is the
\* editor's text; after any other answer it is the text saved before, which
\* differs from the editor's; the command execute_script reads is the saved
\* command, and it is the command run on every file the script is run on.
C28_CommandRun ==
    /\ script.answer = "Cancel" =>
          /\ pc = "cancelled"
          /\ NoneTouched
          /\ \A f \in Files : status[f] = "none"
          /\ script.command = "none"
          /\ script.stored = script.stored0
    /\ script.answer = "Yes" => script.stored = script.editor
    /\ script.answer \in {"No", "dismiss"} =>
          /\ script.stored = script.stored0
          /\ script.stored # script.editor
    /\ script.command \in {"none", script.stored}
    /\ \A f \in Files :
          /\ f \in ran <=> script.ran[f] # "none"
          /\ f \in ran => script.ran[f] = script.stored

\* The prompt was answered 'No' with an edited text in the editor, and the
\* batch ran the previously saved command on every file.
C28_Witness ==
    /\ pc = "done"
    /\ script.answer = "No"
    /\ script.editor = "new"
    /\ ran = Files
    /\ \A f \in Files : script.ran[f] = "old"

=============================================================================
